---- MODULE Spec2Model ----
(***************************************************************************)
(* TypeScriptle: the type-level Wordle comparison of typescriptle.d.ts.    *)
(*                                                                         *)
(* A type instantiation of CompareWords is modelled as a run: the guess    *)
(* and the solution are chosen in the initial state, and every recursive   *)
(* instantiation of CompareWords is one step that classifies the head of   *)
(* the remaining guess and recurses on the tails.                          *)
(*                                                                         *)
(* Encoding of the types:                                                  *)
(*   - a character (a one-letter string literal type) is a non-zero        *)
(*     integer: l > 0 is the lower-case letter number l and -l is its      *)
(*     upper-case form;                                                    *)
(*   - a tuple type is a sequence; a tuple of `true`/`any` elements is a   *)
(*     sequence of the strings "true"/"any";                               *)
(*   - a numeric literal type is an integer; a string key "n" of a tuple   *)
(*     is the integer n.                                                   *)
(***************************************************************************)
EXTENDS Integers, Sequences, FiniteSets, TLC

\* Number of distinct lower-case letters words are drawn from.
NumLetters == 2
\* Number of those letters that may also appear in upper case (SpecCase).
NumUpper == 1
NumSolutionLetters == 6
\* Number of candidate words of the word list of SpecGuess.
NumWords == 2
\* Longest word of the mixed-case specification SpecCase.
CaseLen == 3
\* Longest word the iteration list supports: indexes 0 to 4.
MaxWordLength == 5
\* Number of slots of the tuple Guess takes.
NumberOfGuesses == 6
\* The key "OUT_OF_BOUNDS" of PossibleIterations; its iteration value is -1.
OUT_OF_BOUNDS == -1

Letters == 1..NumLetters
UpperLetters == {-l : l \in 1..NumUpper}

\* The type the compiler gives an instantiation it abandons as excessively deep.
ErrorType == <<"error">>
\* The type `unknown` where a tuple of characters is expected (0 is no character).
UnknownType == <<0>>
\* The array type string[], which is no tuple (0 is no character).
StringArrayType == <<0, 0>>

IsCharacterTuple(T) == \A i \in DOMAIN T : T[i] # 0

\* Lowercase<T> on a one-character string literal.
LowercaseString(T) == IF T < 0 THEN -T ELSE T

CastToStringList(T) == IF IsCharacterTuple(T) THEN T ELSE StringArrayType

\* A tuple of T elements `Replacement` (T + 1 when IsLengthInclusive).  R grows by
\* one element per instantiation until its length is T; for a negative T that
\* never happens and the compiler abandons the instantiation.
RECURSIVE NumberToTuple(_, _, _, _)
NumberToTuple(T, Replacement, IsLengthInclusive, R) ==
  IF T < 0 THEN ErrorType
  ELSE IF Len(R) = T
       THEN IF IsLengthInclusive THEN <<Replacement>> \o R ELSE R
       ELSE NumberToTuple(T, Replacement, IsLengthInclusive, <<Replacement>> \o R)

\* ArrayKeyList<T>[number]: the keys "0" .. "n-1" of an n-tuple.
KeyUnion(T) == {i - 1 : i \in DOMAIN T}

GreaterThanOrEqual(T, R) ==
  IF T \in KeyUnion(NumberToTuple(R, "true", FALSE, <<>>)) THEN FALSE ELSE TRUE

\* GreaterThan without the length-inclusive tuple: it answers "at least".
GreaterThanNotInclusive(T, R) ==
  IF T \in KeyUnion(NumberToTuple(R, "true", FALSE, <<>>)) THEN FALSE ELSE TRUE

GreaterThan(T, R) ==
  IF T \in KeyUnion(NumberToTuple(R, "true", TRUE, <<>>)) THEN FALSE ELSE TRUE

Length(T) == Len(T)

Or(T1, T2) == IF T1 = TRUE THEN TRUE ELSE IF T2 = TRUE THEN TRUE ELSE FALSE
And(T1, T2) == IF T1 = TRUE THEN (IF T2 = TRUE THEN TRUE ELSE FALSE) ELSE FALSE

\* An iteration is <<value, key of the next iteration>>.
PossibleIterations ==
  [k \in {OUT_OF_BOUNDS} \cup (0..(MaxWordLength - 1)) |->
     IF k = OUT_OF_BOUNDS THEN <<-1, OUT_OF_BOUNDS>>
     ELSE IF k = MaxWordLength - 1 THEN <<k, OUT_OF_BOUNDS>>
     ELSE <<k, k + 1>>]

IterationOf(T) == PossibleIterations[T]
IterationValue(T) == T[1]
NextIteration(T) == PossibleIterations[T[2]]

\* true[] with one entry per element of T equal to Character; string[] is no
\* tuple with a head, so it gives [].
RECURSIVE GetAllCharacterOccurrences(_, _)
GetAllCharacterOccurrences(Character, T) ==
  IF T # <<>> /\ IsCharacterTuple(T)
  THEN IF Character = Head(T)
       THEN <<"true">> \o GetAllCharacterOccurrences(Character, CastToStringList(Tail(T)))
       ELSE GetAllCharacterOccurrences(Character, CastToStringList(Tail(T)))
  ELSE <<>>

\* List from IndexToStartAt to its end; the whole list when it is shorter.
SliceStartingAt(IndexToStartAt, List) ==
  LET Prefix == NumberToTuple(IndexToStartAt, "any", FALSE, <<>>)
  IN  IF Prefix = ErrorType THEN UnknownType
      ELSE IF IsCharacterTuple(List) /\ Len(List) >= Len(Prefix)
           THEN SubSeq(List, Len(Prefix) + 1, Len(List))
           ELSE List

\* List from index 0 up to, not including, IndexToSliceUpTo.
RECURSIVE SliceUpTo(_, _, _, _)
SliceUpTo(IndexToSliceUpTo, List, PoppedList, Accumulator) ==
  IF GreaterThanOrEqual(Length(List), IndexToSliceUpTo) = TRUE
  THEN IF GreaterThanOrEqual(Length(Accumulator), IndexToSliceUpTo) = TRUE
       THEN Accumulator
       ELSE IF PoppedList # <<>>
            THEN SliceUpTo(IndexToSliceUpTo, List, Tail(PoppedList),
                           Accumulator \o <<Head(PoppedList)>>)
            ELSE <<>>
  ELSE List

\* No occurrence counted after index I.
GetCharacterOccurrencesAfterIndexNone(Character, List, I) == 0

\* The iteration value after I is always a number (-1 when out of bounds), so
\* the "out of bounds" branch of the source is never taken.
GetCharacterOccurrencesAfterIndex(Character, List, I) ==
  LET NextIterationValue == IterationValue(NextIteration(I))
  IN  Length(GetAllCharacterOccurrences(
               Character, CastToStringList(SliceStartingAt(NextIterationValue, List))))

\* The compiler abandons the tuple GetCharacterOccurrencesAfterIndex asks for at
\* iteration I: the instantiation of NumberToTuple for the next index never ends.
CountsAbandoned(I) ==
  NumberToTuple(IterationValue(NextIteration(I)), "any", FALSE, <<>>) = ErrorType

\* The compiler abandons the default type arguments SlicedGuess and SlicedSolution
\* of the instantiation of CompareWords at iteration I: SliceStartingAt asks
\* NumberToTuple for a tuple of the length of the iteration value, and the
\* instantiation for the value -1 of the iteration "OUT_OF_BOUNDS" never ends.
DefaultsAbandoned(I) == NumberToTuple(IterationValue(I), "any", FALSE, <<>>) = ErrorType

\* The iteration of the instantiation of CompareWords that follows n recursions.
RECURSIVE IterationAfter(_)
IterationAfter(n) == IF n = 0 THEN IterationOf(0) ELSE NextIteration(IterationAfter(n - 1))

GetCharacterOccurrencesBeforeIndex(Character, List, I) ==
  Length(GetAllCharacterOccurrences(
           Character, CastToStringList(SliceUpTo(IterationValue(I), List, List, <<>>))))

\* GetExactMatches that finds no match at all.
GetExactMatchesNone(Character, T, R) == <<>>

\* true[] with one entry per index at which T and R both hold Character.
RECURSIVE GetExactMatches(_, _, _)
GetExactMatches(Character, T, R) ==
  IF T # <<>> /\ IsCharacterTuple(T)
  THEN IF R # <<>> /\ IsCharacterTuple(R)
       THEN IF Character = Head(T) /\ Character = Head(R)
            THEN <<"true">> \o GetExactMatches(Character, CastToStringList(Tail(T)),
                                               CastToStringList(Tail(R)))
            ELSE GetExactMatches(Character, CastToStringList(Tail(T)),
                                 CastToStringList(Tail(R)))
       ELSE <<>>
  ELSE <<>>

CharacterNotFound(Character) == [verdict |-> "Absent", character |-> Character]
CharacterAtCorrectPosition(Character) == [verdict |-> "Correct", character |-> Character]
CharacterFound(Character) == [verdict |-> "Present", character |-> Character]

\* ComputeCounts with the two counts of the guess in each other's place.
ComputeCountsGuessSwapped(CurrentCharacter, FullSolution, FullGuess, I) ==
  << GetCharacterOccurrencesAfterIndex(CurrentCharacter, FullSolution, I),
     GetCharacterOccurrencesBeforeIndex(CurrentCharacter, FullSolution, I),
     GetCharacterOccurrencesBeforeIndex(CurrentCharacter, FullGuess, I),
     GetCharacterOccurrencesAfterIndex(CurrentCharacter, FullGuess, I) >>

ComputeCounts(CurrentCharacter, FullSolution, FullGuess, I) ==
  << GetCharacterOccurrencesAfterIndex(CurrentCharacter, FullSolution, I),
     GetCharacterOccurrencesBeforeIndex(CurrentCharacter, FullSolution, I),
     GetCharacterOccurrencesAfterIndex(CurrentCharacter, FullGuess, I),
     GetCharacterOccurrencesBeforeIndex(CurrentCharacter, FullGuess, I) >>

\* The default type arguments SlicedGuess, SlicedSolution and
\* NumberOfExactMatchesForCurrentGuessCharacter of CompareWords.
NumberOfExactMatchesForCurrentGuessCharacter(CurrentGuessCharacterList, FullSolution, FullGuess, CurrentIteration) ==
  LET SlicedGuess == SliceStartingAt(IterationValue(CurrentIteration), FullGuess)
      SlicedSolution == SliceStartingAt(IterationValue(CurrentIteration), FullSolution)
  IN  Length(GetExactMatches(LowercaseString(Head(CurrentGuessCharacterList)),
                             CastToStringList(SlicedGuess),
                             CastToStringList(SlicedSolution)))

\* The exact match test without the lowercasing of the guess character.
IsExactMatchCaseSensitive(CurrentGuessCharacter, CurrentSolutionCharacter) ==
  CurrentGuessCharacter = CurrentSolutionCharacter

\* The exact match test of CompareWords.
IsExactMatch(CurrentGuessCharacter, CurrentSolutionCharacter) ==
  LowercaseString(CurrentGuessCharacter) = CurrentSolutionCharacter

\* The verdict of a guess character that is no exact match.
PartialMatch(CurrentGuessCharacter, FullSolution, FullGuess, CurrentIteration, NumberOfExactMatches) ==
  LET Counts == ComputeCounts(LowercaseString(CurrentGuessCharacter), FullSolution,
                              FullGuess, CurrentIteration)
      SolutionCharactersAfter == Counts[1]
      SolutionCharactersBefore == Counts[2]
      GuessCharactersAfter == Counts[3]
      GuessCharactersBefore == Counts[4]
      Character == LowercaseString(CurrentGuessCharacter)
  IN  IF GreaterThan(SolutionCharactersBefore, 0) = TRUE
      THEN IF Or(GreaterThan(SolutionCharactersBefore, GuessCharactersBefore),
                 GreaterThan(SolutionCharactersAfter, NumberOfExactMatches)) = TRUE
           THEN CharacterFound(Character)
           ELSE CharacterNotFound(Character)
      ELSE IF GreaterThan(SolutionCharactersAfter, 0) = TRUE
           THEN IF GreaterThanOrEqual(SolutionCharactersAfter, GuessCharactersAfter) = TRUE
                THEN IF And(GreaterThan(SolutionCharactersAfter, GuessCharactersBefore),
                            GreaterThan(SolutionCharactersAfter, NumberOfExactMatches)) = TRUE
                     THEN CharacterFound(Character)
                     ELSE CharacterNotFound(Character)
                ELSE IF GreaterThan(SolutionCharactersAfter, NumberOfExactMatches) = TRUE
                     THEN CharacterFound(Character)
                     ELSE CharacterNotFound(Character)
           ELSE CharacterNotFound(Character)

\* HeadVerdict that tests the guess character against the head of the full solution.
HeadVerdictAgainstFullSolution(CurrentGuessCharacterList, CurrentSolutionCharacterList, FullSolution, FullGuess, CurrentIteration) ==
  IF IsExactMatch(Head(CurrentGuessCharacterList), Head(FullSolution))
  THEN CharacterAtCorrectPosition(LowercaseString(Head(CurrentGuessCharacterList)))
  ELSE PartialMatch(Head(CurrentGuessCharacterList), FullSolution, FullGuess,
                    CurrentIteration,
                    NumberOfExactMatchesForCurrentGuessCharacter(
                      CurrentGuessCharacterList, FullSolution, FullGuess,
                      CurrentIteration))

\* The verdict CompareWords puts at the head of its result.
HeadVerdict(CurrentGuessCharacterList, CurrentSolutionCharacterList, FullSolution, FullGuess, CurrentIteration) ==
  IF IsExactMatch(Head(CurrentGuessCharacterList), Head(CurrentSolutionCharacterList))
  THEN CharacterAtCorrectPosition(LowercaseString(Head(CurrentGuessCharacterList)))
  ELSE PartialMatch(Head(CurrentGuessCharacterList), FullSolution, FullGuess,
                    CurrentIteration,
                    NumberOfExactMatchesForCurrentGuessCharacter(
                      CurrentGuessCharacterList, FullSolution, FullGuess,
                      CurrentIteration))

\* An InvalidCase in place of the empty tuple that ends the recursion.
EmptyResultInvalidCase == <<[verdict |-> "InvalidCase", character |-> 0]>>

\* The result of CompareWords once the guess or the solution is exhausted: [].
EmptyResult == <<>>

\* CompareWords as a function: the tuple of verdicts of a whole instantiation.
\* ComputeCounts always is a tuple of four, so InvalidCase is never the result.
RECURSIVE CompareWords(_, _, _, _, _)
CompareWords(CurrentGuessCharacterList, CurrentSolutionCharacterList, FullSolution, FullGuess, CurrentIteration) ==
  IF CurrentGuessCharacterList # <<>> /\ CurrentSolutionCharacterList # <<>>
  THEN <<HeadVerdict(CurrentGuessCharacterList, CurrentSolutionCharacterList,
                     FullSolution, FullGuess, CurrentIteration)>>
       \o CompareWords(CastToStringList(Tail(CurrentGuessCharacterList)),
                       CastToStringList(Tail(CurrentSolutionCharacterList)),
                       FullSolution, FullGuess, NextIteration(CurrentIteration))
  ELSE EmptyResult

----------------------------------------------------------------------------
\* The first variant of the game (typescriptle.d.ts), which looks a character up in
\* the whole solution and keeps no count of occurrences.

\* Only the first character of the list is looked at.
ContainsCharacterHeadOnly(SplitWord, CharacterToSearchFor) ==
  IF SplitWord # <<>> /\ CharacterToSearchFor = Head(SplitWord)
  THEN CharacterFound(CharacterToSearchFor)
  ELSE CharacterNotFound(CharacterToSearchFor)

RECURSIVE ContainsCharacter(_, _)
ContainsCharacter(SplitWord, CharacterToSearchFor) ==
  IF SplitWord # <<>>
  THEN IF CharacterToSearchFor = Head(SplitWord)
       THEN CharacterFound(CharacterToSearchFor)
       ELSE ContainsCharacter(Tail(SplitWord), CharacterToSearchFor)
  ELSE CharacterNotFound(CharacterToSearchFor)

\* The first element of the tuple the first variant builds for the head characters.
SimpleHeadVerdict(CurrentGuessedLetter, CurrentSolutionLetter, FullSolutionCharacterList) ==
  IF CurrentGuessedLetter = CurrentSolutionLetter
  THEN CharacterAtCorrectPosition(CurrentGuessedLetter)
  ELSE ContainsCharacter(FullSolutionCharacterList, CurrentGuessedLetter)

\* CompareWords of the first variant, as a function.
RECURSIVE SimpleCompareWords(_, _, _)
SimpleCompareWords(GuessCharacterList, SolutionCharacterList, FullSolutionCharacterList) ==
  IF GuessCharacterList # <<>> /\ SolutionCharacterList # <<>>
  THEN <<SimpleHeadVerdict(Head(GuessCharacterList), Head(SolutionCharacterList),
                           FullSolutionCharacterList)>>
       \o SimpleCompareWords(Tail(GuessCharacterList), Tail(SolutionCharacterList),
                             FullSolutionCharacterList)
  ELSE <<>>

\* GuessWord and Guess (typescriptle.d.ts, refined variant). A string is the
\* sequence of its characters. A row is the sequence of its five-character
\* segments, each the template of one verdict; EmptyWordPlaceholder is five
\* black squares each followed by a blank, InvalidWord is one literal.
EmptyWordPlaceholder == [i \in 1..MaxWordLength |-> CharacterNotFound(0)]
InvalidWord == <<[verdict |-> "InvalidWord", character |-> 0]>>

RECURSIVE Split(_)
Split(T) == IF T # <<>> THEN <<Head(T)>> \o Split(Tail(T)) ELSE <<>>

RECURSIVE Join(_)
Join(T) == IF T # <<>> THEN <<Head(T)>> \o Join(Tail(T)) ELSE <<>>

\* The intrinsic Lowercase on a whole string.
Lowercase(S) == [i \in DOMAIN S |-> LowercaseString(S[i])]

\* Words is the union of the elements of the word list.
ValidWord(Word, Words) == Word \in Words

CompareWithSolution(Guess, Solution) ==
  CompareWords(Guess, Solution, Solution, Guess, IterationOf(0))

\* Every guess that is not empty is compared, in the word list or not.
GuessWordUnvalidated(Guess, Words, Solution) ==
  IF Guess = <<>>
  THEN EmptyWordPlaceholder
  ELSE Join(CompareWithSolution(Split(Lowercase(Guess)), Solution))

\* The guess is looked up in the word list as written.
GuessWordCaseSensitive(Guess, Words, Solution) ==
  IF Guess = <<>>
  THEN EmptyWordPlaceholder
  ELSE IF ValidWord(Guess, Words)
       THEN Join(CompareWithSolution(Split(Lowercase(Guess)), Solution))
       ELSE InvalidWord

GuessWord(Guess, Words, Solution) ==
  IF Guess = <<>>
  THEN EmptyWordPlaceholder
  ELSE IF ValidWord(Lowercase(Guess), Words)
       THEN Join(CompareWithSolution(Split(Lowercase(Guess)), Solution))
       ELSE InvalidWord

\* Once a guess was invalid every later row is InvalidWord.
GuessRowAfterInvalid(T, k, Words, Solution) ==
  IF \E j \in 1..(k - 1) : GuessWord(T[j], Words, Solution) = InvalidWord
  THEN InvalidWord
  ELSE GuessWord(T[k], Words, Solution)

\* The rows in the reverse order of the slots.
GuessRowReversed(T, k, Words, Solution) == GuessWord(T[Len(T) + 1 - k], Words, Solution)

\* The property "Guess k" of the object Guess<T> returns.
GuessRow(T, k, Words, Solution) == GuessWord(T[k], Words, Solution)

\* The comparison of Guess with Solution abandons an instantiation.
ComparisonAbandoned(Guess, Solution) ==
  \/ \E n \in 0..Cardinality(DOMAIN Guess \cap DOMAIN Solution) :
       DefaultsAbandoned(IterationAfter(n))
  \/ \E i \in DOMAIN Guess \cap DOMAIN Solution :
       /\ ~IsExactMatch(Guess[i], Solution[i])
       /\ CountsAbandoned(IterationAfter(i - 1))

VARIABLES fullGuess, fullSolution, guessList, solutionList, iteration, result, pc,
          abandoned, wordList, slots, rows

vars == <<fullGuess, fullSolution, guessList, solutionList, iteration, result, pc, abandoned, wordList, slots, rows>>

\* The state of Guess: the word list, the guess slots evaluated and their rows.
guessVars == <<wordList, slots, rows>>

RECURSIVE WordsUpTo(_, _)
WordsUpTo(Alphabet, n) ==
  IF n = 0 THEN {<<>>}
  ELSE LET Shorter == WordsUpTo(Alphabet, n - 1)
       IN  Shorter \cup {<<c>> \o w : c \in Alphabet, w \in {v \in Shorter : Len(v) = n - 1}}

Start(g, s) ==
  /\ fullGuess = g
  /\ fullSolution = s
  /\ guessList = g
  /\ solutionList = s
  /\ iteration = IterationOf(0)
  /\ result = <<>>
  /\ pc = "compare"
  /\ abandoned = FALSE
  /\ wordList = {}
  /\ slots = <<>>
  /\ rows = <<>>

\* CompareWords<guess, solution> for lower-case words of up to five characters,
\* of equal or unequal length.
Init ==
  \E g \in WordsUpTo(Letters, MaxWordLength), s \in WordsUpTo(Letters, MaxWordLength) :
    Start(g, s)

\* CompareWords<guess, solution> for words of equal length: a guess in which
\* letters may be upper case and a lower-case solution, as the word list holds.
InitCase ==
  \E g \in WordsUpTo(Letters \cup UpperLetters, CaseLen), s \in WordsUpTo(Letters, CaseLen) :
    /\ Len(g) = Len(s)
    /\ Start(g, s)

\* The recursion with the tail of the guess and the whole remaining solution.
RecurseKeepingSolution(headVerdict) ==
  /\ result' = Append(result, headVerdict)
  /\ guessList' = CastToStringList(Tail(guessList))
  /\ solutionList' = solutionList
  /\ iteration' = NextIteration(iteration)
  /\ UNCHANGED <<fullGuess, fullSolution, pc, guessVars>>

\* The recursion with the verdict spread after the verdicts of the tails.
RecurseVerdictLast(headVerdict) ==
  /\ result' = << headVerdict >> \o result
  /\ guessList' = CastToStringList(Tail(guessList))
  /\ solutionList' = CastToStringList(Tail(solutionList))
  /\ iteration' = NextIteration(iteration)
  /\ UNCHANGED <<fullGuess, fullSolution, pc, guessVars>>

\* The verdict joins the result and CompareWords recurses on the tails.
Recurse(headVerdict) ==
  /\ result' = Append(result, headVerdict)
  /\ guessList' = CastToStringList(Tail(guessList))
  /\ solutionList' = CastToStringList(Tail(solutionList))
  /\ iteration' = NextIteration(iteration)
  /\ UNCHANGED <<fullGuess, fullSolution, pc, guessVars>>

\* The exact match branch of one instantiation of CompareWords.
ExactMatchStep ==
  /\ pc = "compare"
  /\ guessList # <<>> /\ solutionList # <<>>
  /\ IsExactMatch(Head(guessList), Head(solutionList))
  /\ Recurse(HeadVerdict(guessList, solutionList, fullSolution, fullGuess, iteration))
  /\ abandoned' = (abandoned \/ DefaultsAbandoned(iteration))

\* The branch of one instantiation of CompareWords that computes the counts.
PartialMatchStep ==
  /\ pc = "compare"
  /\ guessList # <<>> /\ solutionList # <<>>
  /\ ~IsExactMatch(Head(guessList), Head(solutionList))
  /\ Recurse(HeadVerdict(guessList, solutionList, fullSolution, fullGuess, iteration))
  /\ abandoned' = (abandoned \/ DefaultsAbandoned(iteration) \/ CountsAbandoned(iteration))

\* The instantiation with an exhausted guess or solution: the result ends.
Finish ==
  /\ pc = "compare"
  /\ guessList = <<>> \/ solutionList = <<>>
  /\ pc' = "done"
  /\ result' = result \o EmptyResult
  /\ abandoned' = (abandoned \/ DefaultsAbandoned(iteration))
  /\ UNCHANGED <<fullGuess, fullSolution, guessList, solutionList, iteration, guessVars>>

Next == ExactMatchStep \/ PartialMatchStep \/ Finish

Spec == Init /\ [][Next]_vars
SpecCase == InitCase /\ [][Next]_vars

\* One instantiation of CompareWords of the first variant. The recursion that
\* hands the rest of the solution on as the full solution:
SimpleRecurseShrinkingSolution(headVerdict) ==
  /\ result' = Append(result, headVerdict)
  /\ guessList' = Tail(guessList)
  /\ solutionList' = Tail(solutionList)
  /\ fullSolution' = Tail(solutionList)
  /\ UNCHANGED <<fullGuess, iteration, pc, abandoned, guessVars>>

SimpleRecurse(headVerdict) ==
  /\ result' = Append(result, headVerdict)
  /\ guessList' = Tail(guessList)
  /\ solutionList' = Tail(solutionList)
  /\ fullSolution' = fullSolution
  /\ UNCHANGED <<fullGuess, iteration, pc, abandoned, guessVars>>

SimpleCorrectStep ==
  /\ pc = "compare"
  /\ guessList # <<>>
  /\ solutionList # <<>>
  /\ Head(guessList) = Head(solutionList)
  /\ SimpleRecurse(SimpleHeadVerdict(Head(guessList), Head(solutionList), fullSolution))

SimpleContainsStep ==
  /\ pc = "compare"
  /\ guessList # <<>>
  /\ solutionList # <<>>
  /\ Head(guessList) # Head(solutionList)
  /\ SimpleRecurse(SimpleHeadVerdict(Head(guessList), Head(solutionList), fullSolution))

SimpleFinish ==
  /\ pc = "compare"
  /\ guessList = <<>> \/ solutionList = <<>>
  /\ pc' = "done"
  /\ UNCHANGED <<fullGuess, fullSolution, guessList, solutionList, iteration, result, abandoned, guessVars>>

NextSimple == SimpleCorrectStep \/ SimpleContainsStep \/ SimpleFinish

SpecSimple == Init /\ [][NextSimple]_vars

\* Guesses without a repeated letter. The two variants only ever test characters
\* for equality, so the letters of such a guess are named 1, 2, ... in order; the
\* solution is any word of the same length over NumSolutionLetters letters.
InitAgree ==
  \E n \in 0..MaxWordLength :
    \E s \in [1..n -> 1..NumSolutionLetters] : Start([i \in 1..n |-> i], s)

SpecAgree == InitAgree /\ [][Next]_vars

\* Guess<T>: a word list, its word at WordNumber as the solution, and six guess
\* slots. The candidate words have five lower-case letters and the word list is
\* any set of them that is not empty.
Word(i) == [k \in 1..MaxWordLength |-> IF k = i THEN 2 ELSE 1]
CandidateWords == {Word(i) : i \in 1..NumWords}
GuessInputs == {<<>>} \cup CandidateWords

\* The ways of writing the word w with some of its letters in upper case.
CaseVariants(w) == {v \in [DOMAIN w -> Letters \cup UpperLetters] : Lowercase(v) = w}

\* The word w with every letter that has an upper-case form in upper case.
UpperWord(w) == [k \in DOMAIN w |-> IF w[k] \in 1..NumUpper THEN 0 - w[k] ELSE w[k]]

\* Words a word list may hold: the candidate words, and the first of them written
\* with upper-case letters.
ListWords == CandidateWords \cup {UpperWord(Word(1))}

\* A game over a word list from Lists, any word of the list being the solution.
StartGame(T, Lists) ==
  /\ wordList \in Lists
  /\ fullSolution \in {Split(w) : w \in wordList}
  /\ slots = T
  /\ rows = <<>>
  /\ pc = "guess"
  /\ fullGuess = <<>>
  /\ guessList = <<>>
  /\ solutionList = <<>>
  /\ iteration = IterationOf(0)
  /\ result = <<>>
  /\ abandoned = FALSE

\* A game over a word list of lower-case candidate words.
StartGuess(T) == StartGame(T, (SUBSET CandidateWords) \ {{}})

\* Six slots, each empty or holding a candidate word.
InitGuess == \E T \in [1..NumberOfGuesses -> GuessInputs] : StartGuess(T)

\* One guess, a candidate word in any mix of cases or the empty string, in any
\* one of the six slots; the other slots are empty.
InitGuessWord ==
  \E p \in 1..NumberOfGuesses :
    \E w \in CandidateWords :
      \E g \in CaseVariants(w) \cup {<<>>} :
        StartGuess([k \in 1..NumberOfGuesses |-> IF k = p THEN g ELSE <<>>])

\* The slot whose row is evaluated next.
NextSlot == Len(rows) + 1

EvaluateSlot ==
  /\ rows' = Append(rows, GuessRow(slots, NextSlot, wordList, fullSolution))
  /\ UNCHANGED <<fullGuess, fullSolution, guessList, solutionList, iteration, result, pc, wordList, slots>>

GuessWordEmpty ==
  /\ pc = "guess"
  /\ NextSlot <= NumberOfGuesses
  /\ slots[NextSlot] = <<>>
  /\ EvaluateSlot
  /\ UNCHANGED abandoned

GuessWordInvalid ==
  /\ pc = "guess"
  /\ NextSlot <= NumberOfGuesses
  /\ slots[NextSlot] # <<>>
  /\ ~ValidWord(Lowercase(slots[NextSlot]), wordList)
  /\ EvaluateSlot
  /\ UNCHANGED abandoned

GuessWordCompared ==
  /\ pc = "guess"
  /\ NextSlot <= NumberOfGuesses
  /\ slots[NextSlot] # <<>>
  /\ ValidWord(Lowercase(slots[NextSlot]), wordList)
  /\ EvaluateSlot
  /\ abandoned' = (abandoned \/ ComparisonAbandoned(Split(Lowercase(slots[NextSlot])), fullSolution))

GuessFinish ==
  /\ pc = "guess"
  /\ NextSlot > NumberOfGuesses
  /\ pc' = "guessed"
  /\ UNCHANGED <<fullGuess, fullSolution, guessList, solutionList, iteration, result, abandoned, guessVars>>

NextGuess == GuessWordEmpty \/ GuessWordInvalid \/ GuessWordCompared \/ GuessFinish

SpecGuess == InitGuess /\ [][NextGuess]_vars
SpecGuessWord == InitGuessWord /\ [][NextGuess]_vars

\* One guess as in InitGuessWord, over a word list that may also hold a word
\* written with upper-case letters.
InitWordList ==
  \E p \in 1..NumberOfGuesses :
    \E w \in CandidateWords :
      \E g \in CaseVariants(w) \cup {<<>>} :
        StartGame([k \in 1..NumberOfGuesses |-> IF k = p THEN g ELSE <<>>],
                  (SUBSET ListWords) \ {{}})

SpecWordList == InitWordList /\ [][NextGuess]_vars

----------------------------------------------------------------------------
Verdicts(r) == [i \in DOMAIN r |-> r[i].verdict]
Occurrences(c, w) == Cardinality({i \in DOMAIN w : w[i] = c})
EqualLength == Len(fullGuess) = Len(fullSolution)

\* The stepwise run computes the function CompareWords.
RunIsCompareWords ==
  pc = "done" =>
    result = CompareWords(fullGuess, fullSolution, fullSolution, fullGuess, IterationOf(0))

\* The occurrence-budget reference rule: position i is Correct when the guess and
\* the solution agree there; otherwise it is Present when the exact matches of its
\* character plus the earlier non-exact positions of that character already given
\* Present are fewer than the character's occurrences in the solution.
ExactMatches(c, g, s) == Cardinality({k \in DOMAIN g : g[k] = c /\ s[k] = c})
RECURSIVE ReferenceScan(_, _, _)
ReferenceScan(g, s, done) ==
  IF Len(done) = Len(g) THEN done
  ELSE LET i == Len(done) + 1
           c == g[i]
           claimed == Cardinality({k \in DOMAIN done :
                                     g[k] = c /\ g[k] # s[k] /\ done[k] = "Present"})
           v == IF c = s[i] THEN "Correct"
                ELSE IF ExactMatches(c, g, s) + claimed < Occurrences(c, s)
                     THEN "Present" ELSE "Absent"
       IN  ReferenceScan(g, s, done \o <<v>>)
Reference(g, s) == ReferenceScan(g, s, <<>>)

LowerWord(w) == [i \in DOMAIN w |-> LowercaseString(w[i])]
Marked(c) ==
  {i \in DOMAIN result : LowercaseString(fullGuess[i]) = c
                         /\ result[i].verdict \in {"Correct", "Present"}}
NonExact(i) == LowercaseString(fullGuess[i]) # fullSolution[i]
Min(a, b) == IF a < b THEN a ELSE b

\* C1: character budget. For words of equal length and every character c, the
\* guess positions holding c that are Correct or Present are at most as many as
\* the occurrences of c in the solution.
C1_CharacterBudget ==
  (pc = "done" /\ EqualLength) =>
    \A c \in Letters : Cardinality(Marked(c)) <= Occurrences(c, fullSolution)

\* C2: the result of CompareWords is the result of the occurrence-budget
\* reference rule, for words of equal length.
C2_EqualsReference ==
  (pc = "done" /\ EqualLength) => Verdicts(result) = Reference(fullGuess, fullSolution)

\* C3: the verdict at position i is Correct if and only if the lowercased guess
\* character at i is the solution character at i, whatever else the words hold.
C3_CorrectIffExact ==
  \A i \in DOMAIN result :
    (result[i].verdict = "Correct") <=> (LowercaseString(fullGuess[i]) = fullSolution[i])

\* C3 witness: a finished comparison with an upper-case exact match whose letter
\* also occurs elsewhere in the guess, at a position that is no exact match.
C3_Witness ==
  /\ pc = "done"
  /\ \E i, j \in DOMAIN result :
       /\ i # j
       /\ fullGuess[i] < 0
       /\ result[i].verdict = "Correct"
       /\ LowercaseString(fullGuess[j]) = LowercaseString(fullGuess[i])
       /\ result[j].verdict # "Correct"

\* C4 as claimed: a comparison of words of unequal length never ends with a
\* sequence of verdicts.
C4_LengthMismatchFails == (pc = "done") => EqualLength

\* C4 as amended: a comparison of words of unequal length ends with one verdict
\* for each of the first min(length(guess), length(solution)) positions, each
\* carrying the guess character of its position.
C4_TruncatesToShorter ==
  (pc = "done" /\ ~EqualLength) =>
    /\ Len(result) = Min(Len(fullGuess), Len(fullSolution))
    /\ \A i \in DOMAIN result : result[i].character = LowercaseString(fullGuess[i])

\* C4 witness: finished comparisons of a longer guess, with at least two verdicts.
C4_Witness ==
  /\ pc = "done"
  /\ Len(fullGuess) > Len(fullSolution)
  /\ Len(result) >= 2

\* C5: for words of equal length the result has one verdict per guess character,
\* and the i-th verdict carries the lowercased i-th guess character.
C5_LengthAndOrder ==
  (pc = "done" /\ EqualLength) =>
    /\ Len(result) = Len(fullGuess)
    /\ \A i \in DOMAIN result : result[i].character = LowercaseString(fullGuess[i])

\* C5 witness: a finished comparison of five-letter words with two different
\* letters in the guess and a verdict computed at the last index.
C5_Witness ==
  /\ pc = "done"
  /\ EqualLength
  /\ Len(fullGuess) = MaxWordLength
  /\ fullGuess[1] # fullGuess[MaxWordLength]
  /\ result[MaxWordLength].verdict = "Present"

\* C6: CompareWords gives the verdicts it gives for the lowercased guess and the
\* lowercased solution.
C6_CaseNormalisation ==
  (pc = "done") =>
    Verdicts(result) =
      Verdicts(CompareWords(LowerWord(fullGuess), LowerWord(fullSolution),
                            LowerWord(fullSolution), LowerWord(fullGuess), IterationOf(0)))

\* C7: left-to-right preference. Of two positions i < j that are no exact matches
\* and hold the same character, j is Present only if i is Present.
C7_LeftToRight ==
  (pc = "done" /\ EqualLength) =>
    \A i, j \in DOMAIN result :
      (/\ i < j
       /\ NonExact(i) /\ NonExact(j)
       /\ LowercaseString(fullGuess[i]) = LowercaseString(fullGuess[j])
       /\ result[j].verdict = "Present")
      => result[i].verdict = "Present"

\* C7 witness: a finished comparison in which a letter has three positions that are
\* no exact matches, the first Present and the last Absent.
C7_Witness ==
  /\ pc = "done"
  /\ EqualLength
  /\ \E i, j, k \in DOMAIN result :
       /\ i < j /\ j < k
       /\ NonExact(i) /\ NonExact(j) /\ NonExact(k)
       /\ fullGuess[i] = fullGuess[j] /\ fullGuess[j] = fullGuess[k]
       /\ result[i].verdict = "Present"
       /\ result[k].verdict = "Absent"

\* C8: when the guess matches every occurrence of c in the solution exactly, every
\* other occurrence of c in the guess is Absent.
C8_NoDoubleCounting ==
  (pc = "done" /\ EqualLength) =>
    \A c \in Letters :
      (\A k \in DOMAIN fullSolution : fullSolution[k] = c => fullGuess[k] = c)
      => \A i \in DOMAIN result :
           (fullGuess[i] = c /\ fullSolution[i] # c) => result[i].verdict = "Absent"

\* C8 witness: a finished comparison in which a letter of the solution is matched
\* exactly wherever it occurs, and occurs in the guess before and after an exact match.
C8_Witness ==
  /\ pc = "done"
  /\ EqualLength
  /\ \E c \in Letters :
       /\ Occurrences(c, fullSolution) >= 1
       /\ \A k \in DOMAIN fullSolution : fullSolution[k] = c => fullGuess[k] = c
       /\ \E i, k, j \in DOMAIN result :
            /\ i < k /\ k < j
            /\ fullSolution[k] = c
            /\ fullGuess[i] = c /\ fullSolution[i] # c
            /\ fullGuess[j] = c /\ fullSolution[j] # c

\* C9: a guess character that occurs nowhere in the solution is Absent.
C9_AbsentFromSolution ==
  (pc = "done") =>
    \A i \in DOMAIN result :
      Occurrences(LowercaseString(fullGuess[i]), fullSolution) = 0
      => result[i].verdict = "Absent"

\* C9 witness: a finished comparison of five-letter words that share no letter.
C9_Witness ==
  /\ pc = "done"
  /\ Len(fullGuess) = MaxWordLength /\ EqualLength
  /\ \A i \in DOMAIN fullGuess : Occurrences(fullGuess[i], fullSolution) = 0
  /\ Len(result) = MaxWordLength

\* C10: comparing a word of length 1 to 5 with itself gives Correct everywhere.
C10_SelfCompare ==
  (pc = "done" /\ fullGuess = fullSolution /\ Len(fullGuess) >= 1) =>
    /\ Len(result) = Len(fullGuess)
    /\ \A i \in DOMAIN result : result[i].verdict = "Correct"

\* C10 witness: a five-letter word with two different letters compared with itself.
C10_Witness ==
  /\ pc = "done"
  /\ fullGuess = fullSolution
  /\ Len(fullGuess) = MaxWordLength
  /\ \E i, j \in DOMAIN fullGuess : fullGuess[i] # fullGuess[j]
  /\ Len(result) = MaxWordLength

\* C13: every comparison terminates. For every guess and solution of length up
\* to 5, every position 0 to 4 gets its verdict, exact match or not, without an
\* instantiation of an index, slicing or counting helper being abandoned: each
\* of them finishes in a number of steps bounded by the word length.
C13_HelpersFinish == ~abandoned

\* C15: comparing an empty guess with an empty solution ends with the empty
\* sequence of verdicts, not with an error.
C15_EmptyCompare ==
  (pc = "done" /\ fullGuess = <<>> /\ fullSolution = <<>>) => result = <<>>

\* C15 witness: the finished comparison of the empty guess with the empty solution.
C15_Witness == pc = "done" /\ fullGuess = <<>> /\ fullSolution = <<>> /\ iteration = IterationOf(0)

\* C19: CompareWords never under-marks. For words of equal length, every position
\* that is no exact match and that the reference rule classifies Present is
\* Present in the result of CompareWords.
C19_NeverUnderMarks ==
  (pc = "done" /\ EqualLength) =>
    \A i \in DOMAIN result :
      (NonExact(i) /\ Reference(fullGuess, fullSolution)[i] = "Present")
        => result[i].verdict = "Present"

\* C19 witness: a finished comparison where the reference rule gives Present to a
\* repeated guess letter once and Absent to a later repetition of it.
C19_Witness ==
  /\ pc = "done"
  /\ EqualLength
  /\ \E i, j \in DOMAIN result :
       /\ i < j
       /\ fullGuess[i] = fullGuess[j]
       /\ NonExact(i)
       /\ NonExact(j)
       /\ Reference(fullGuess, fullSolution)[i] = "Present"
       /\ Reference(fullGuess, fullSolution)[j] = "Absent"
       /\ result[i].verdict = "Present"

PairwiseDistinct(w) == \A i, j \in DOMAIN w : i # j => w[i] # w[j]
OccursIn(c, w) == \E k \in DOMAIN w : w[k] = c

\* C17: the first variant of CompareWords gives position i Correct when the guess
\* and the solution hold the same character there, otherwise Present exactly when
\* the guess character occurs anywhere in the full solution, and Absent otherwise;
\* every recursive step hands the full solution on unchanged.
C17_SimpleRule ==
  /\ [](pc = "done" =>
          \A i \in DOMAIN result :
            result[i].verdict =
              IF fullGuess[i] = fullSolution[i] THEN "Correct"
              ELSE IF OccursIn(fullGuess[i], fullSolution) THEN "Present"
              ELSE "Absent")
  /\ [][fullSolution' = fullSolution]_vars

\* C17 witness: a finished comparison of the first variant where a guess letter is
\* Present twice although it occurs in the solution once, before both positions,
\* where the same guess letter is Correct.
C17_Witness ==
  /\ pc = "done"
  /\ iteration = IterationOf(0)
  /\ \E i, j, k \in DOMAIN result :
       /\ i < j
       /\ j < k
       /\ fullGuess[i] = fullGuess[j]
       /\ fullGuess[j] = fullGuess[k]
       /\ Occurrences(fullGuess[i], fullSolution) = 1
       /\ result[i].verdict = "Correct"
       /\ result[j].verdict = "Present"
       /\ result[k].verdict = "Present"

\* C18: the two variants agree on guesses without a repeated letter. For a
\* lower-case guess with pairwise distinct characters and a solution of the same
\* length, up to 5, CompareWords and the first variant give the same verdicts.
C18_VariantsAgree ==
  (pc = "done" /\ EqualLength /\ PairwiseDistinct(fullGuess)) =>
    result = SimpleCompareWords(fullGuess, fullSolution, fullSolution)

\* C18 witness: a finished comparison of a five-letter guess without a repeated
\* letter whose last letter is Present and which has a Correct and an Absent letter.
C18_Witness ==
  /\ pc = "done"
  /\ Len(fullGuess) = MaxWordLength
  /\ EqualLength
  /\ PairwiseDistinct(fullGuess)
  /\ result[MaxWordLength].verdict = "Present"
  /\ \E i, j \in DOMAIN result : result[i].verdict = "Correct" /\ result[j].verdict = "Absent"

\* The comparison of the lowercased guess of slot k with the solution.
ComparedRow(k) ==
  CompareWords(Lowercase(slots[k]), fullSolution, fullSolution, Lowercase(slots[k]), IterationOf(0))
HasUpperCase(w) == \E i \in DOMAIN w : w[i] < 0
HasLowerCase(w) == \E i \in DOMAIN w : w[i] > 0
EqualIgnoringCase(v, w) == Lowercase(v) = Lowercase(w)

\* C11: GuessWord classifies each slot three ways. An empty guess gives the empty
\* placeholder row; a guess that is not empty and whose lowercased form is not in
\* the word list gives the InvalidWord row and is never compared; a guess whose
\* lowercased form is in the word list gives the joined result of CompareWords
\* against the solution. Exactly one of the three outcomes occurs for each slot.
C11_ThreeOutcomes ==
  \A k \in DOMAIN rows :
    /\ (slots[k] = <<>>) => rows[k] = EmptyWordPlaceholder
    /\ (slots[k] # <<>> /\ Lowercase(slots[k]) \notin wordList) => rows[k] = InvalidWord
    /\ (slots[k] # <<>> /\ Lowercase(slots[k]) \in wordList) => rows[k] = ComparedRow(k)
    /\ Cardinality({o \in {"empty", "invalid", "compared"} :
                      \/ o = "empty" /\ rows[k] = EmptyWordPlaceholder
                      \/ o = "invalid" /\ rows[k] = InvalidWord
                      \/ o = "compared" /\ rows[k] = ComparedRow(k)}) = 1

\* C11 witness: a finished game whose one guess, written with upper-case letters,
\* was compared with a solution it differs from, next to placeholder rows.
C11_Witness ==
  /\ pc = "guessed"
  /\ \E j, k \in DOMAIN rows :
       /\ rows[j] = EmptyWordPlaceholder
       /\ HasUpperCase(slots[k])
       /\ Lowercase(slots[k]) # fullSolution
       /\ rows[k] = ComparedRow(k)

\* C12: guesses are independent. The row of slot k depends only on the guess in
\* slot k, the solution and the word list: in a finished game it is the row the
\* same slot gets when every other slot is empty.
OnlySlot(k) == [j \in 1..NumberOfGuesses |-> IF j = k THEN slots[k] ELSE <<>>]
C12_Independent ==
  pc = "guessed" =>
    \A k \in DOMAIN rows : rows[k] = GuessRow(OnlySlot(k), k, wordList, fullSolution)

\* C12 witness: a finished game with a compared row after an InvalidWord row, after
\* a placeholder row.
C12_Witness ==
  /\ pc = "guessed"
  /\ \E i, j, k \in DOMAIN rows :
       /\ i < j
       /\ j < k
       /\ rows[i] = EmptyWordPlaceholder
       /\ rows[j] = InvalidWord
       /\ rows[k] \notin {EmptyWordPlaceholder, InvalidWord}

\* C14 as claimed: word validation is membership ignoring letter case. For every
\* guess and every word list, a guess that is not empty is accepted exactly when
\* some word of the list equals it ignoring letter case.
C14_CaseInsensitiveMembership ==
  \A k \in DOMAIN rows :
    slots[k] # <<>> =>
      ((rows[k] # InvalidWord) <=> (\E w \in wordList : EqualIgnoringCase(w, slots[k])))

\* C14 as amended: a guess that is not empty is accepted exactly when its
\* lowercased form is a word of the list as the list writes it. For a word list
\* of lower-case words that is membership ignoring letter case; a list word with
\* an upper-case letter is never matched. Validating changes neither the word
\* list, nor the solution, nor the guesses.
LowerCaseList == \A w \in wordList : ~HasUpperCase(w)
C14_LowercasedMembership ==
  /\ [](\A k \in DOMAIN rows :
          slots[k] # <<>> =>
            /\ (rows[k] # InvalidWord) <=> (\E w \in wordList : w = Lowercase(slots[k]))
            /\ LowerCaseList =>
                 ((rows[k] # InvalidWord) <=> (\E w \in wordList : EqualIgnoringCase(w, slots[k]))))
  /\ [][wordList' = wordList /\ fullSolution' = fullSolution /\ slots' = slots]_vars

\* C14 witness: a guess written in mixed case is accepted by a word list that holds
\* its lower-case form and also a word written with upper-case letters, and the
\* guess is not the solution.
C14_Witness ==
  /\ ~LowerCaseList
  /\ \E k \in DOMAIN rows :
       /\ HasUpperCase(slots[k])
       /\ HasLowerCase(slots[k])
       /\ rows[k] # InvalidWord
       /\ Lowercase(slots[k]) # fullSolution

\* C16: Guess evaluates exactly six slots and gives exactly six rows, "Guess 1" to
\* "Guess 6"; row k is GuessWord of slot k, in slot order; there is no seventh
\* row and no slot is skipped. While the rows are evaluated the newest row is the
\* row of the slot of its own number; the finished game has six rows, row k being
\* GuessWord of slot k.
C16_SixRows ==
  /\ Len(slots) = NumberOfGuesses
  /\ Len(rows) <= NumberOfGuesses
  /\ (pc = "guess" /\ rows # <<>>) =>
       rows[Len(rows)] = GuessWord(slots[Len(rows)], wordList, fullSolution)
  /\ pc = "guessed" =>
       /\ Len(rows) = NumberOfGuesses
       /\ \A k \in 1..NumberOfGuesses : rows[k] = GuessWord(slots[k], wordList, fullSolution)

\* C16 witness: a finished game of six guesses, none empty, whose first and last
\* rows differ.
C16_Witness ==
  /\ pc = "guessed"
  /\ \A k \in 1..NumberOfGuesses : slots[k] # <<>>
  /\ rows[1] # rows[NumberOfGuesses]
====
